---- MODULE Spec2Model ----
(***************************************************************************)
(* ConsoleService (src/src/strdyn-console.ts) and ModuleConsoleService     *)
(* (src/unnamed/part_002): a logging facade over the host console.         *)
(*                                                                         *)
(* Text is a sequence of string tokens (a template literal contributes one *)
(* token per literal piece and per interpolated value), so concatenation   *)
(* is \o and "contains" is membership of a token.  A JavaScript value is a *)
(* record [t, s, json, circular, m]: typeof, String(v), JSON.stringify(v,  *)
(* null, 2), whether stringify throws, and (numbers) the value in          *)
(* thousandths.                                                            *)
(*                                                                         *)
(* One synchronous run of JavaScript (a job of the event loop) is the unit *)
(* of observation: a job is one outermost facade call with everything it   *)
(* calls, and `out` lists the host-console invocations of the job under    *)
(* way.  A call that hands control to a caller-supplied function (time,    *)
(* timeAsync, group) spans several steps: it pushes a frame, the function  *)
(* makes its own facade calls, and the function's return or throw pops the *)
(* frame and runs the rest of the handler.  A suspended timeAsync resumes  *)
(* in a later job.                                                         *)
(*                                                                         *)
(* `peer`, when there is one (SpecPair), is a ModuleConsoleService with    *)
(* its own configuration record (field moduleName), console, frames and    *)
(* suspended calls; every step hands it the call, the clock readings and   *)
(* the function outcome the first facade is handed.                        *)
(***************************************************************************)
EXTENDS Integers, Sequences, FiniteSets, TLC

VARIABLES
    variant,    \* "app" (ConsoleService) or "module" (ModuleConsoleService)
    config,     \* the object this.config refers to
    snapshot,   \* the object the caller's last getConfig() result refers to
    aliased,    \* whether those two references name the same object
    out,        \* host-console invocations of the current job
    stack,      \* frames of time/timeAsync/group calls whose function is running
    pending,    \* timeAsync calls suspended at `await fn()`
    calls,      \* facade calls made so far in the current job
    opOutcome,  \* what the caller-supplied function last produced
    ret,        \* what the caller of the last completed call received
    last,       \* the public call the last step belongs to
    peer        \* a ModuleConsoleService handed the same calls, or NoPeer

vars == <<variant, config, snapshot, aliased, out, stack, pending, calls,
          opOutcome, ret, last, peer>>

----------------------------------------------------------------------------
(* Bounds *)

MaxDepth == 2      \* nested time/timeAsync/group frames
MaxCalls == 2      \* facade calls within one job
MaxPending == 1    \* timeAsync calls awaiting their function

----------------------------------------------------------------------------
(* JavaScript values *)

Prim(type, text, milli) ==
    [t |-> type, s |-> text, json |-> text, circular |-> FALSE, m |-> milli]

JsUndef == Prim("undefined", <<"undefined">>, 0)
JsTrue == Prim("boolean", <<"true">>, 0)
JsFalse == Prim("boolean", <<"false">>, 0)
JsStr(tokens) == Prim("string", tokens, 0)
JsEmptyStr == Prim("string", <<>>, 0)
JsNull == [t |-> "object", s |-> <<"null">>, json |-> <<"null">>,
           circular |-> FALSE, m |-> 0]
JsObj == [t |-> "object", s |-> <<"[object Object]">>,
          json |-> <<"{\n  \"id\": 5\n}">>, circular |-> FALSE, m |-> 0]
JsCyclic == [t |-> "object", s |-> <<"[object Object]">>,
             json |-> <<>>, circular |-> TRUE, m |-> 0]

Digit == <<"0", "1", "2", "3", "4", "5", "6", "7", "8", "9">>

RECURSIVE IntText(_)
IntText(n) ==
    IF n < 10 THEN <<Digit[n + 1]>>
    ELSE IntText(n \div 10) \o <<Digit[(n % 10) + 1]>>

\* Number.prototype.toString of milli/1000 (milli >= 0): no trailing zeros
FracText(f) ==
    IF f = 0 THEN <<>>
    ELSE IF f % 100 = 0 THEN <<".", Digit[(f \div 100) + 1]>>
    ELSE IF f % 10 = 0
         THEN <<".", Digit[(f \div 100) + 1], Digit[((f \div 10) % 10) + 1]>>
    ELSE <<".", Digit[(f \div 100) + 1], Digit[((f \div 10) % 10) + 1],
           Digit[(f % 10) + 1]>>

NumText(milli) == IntText(milli \div 1000) \o FracText(milli % 1000)

JsNum(milli) == Prim("number", NumText(milli), milli)

\* Number.prototype.toFixed(2) of milli/1000 (milli >= 0)
toFixed2(milli) ==
    LET h == (milli + 5) \div 10
    IN  IntText(h \div 100) \o
        <<".", Digit[((h \div 10) % 10) + 1], Digit[(h % 10) + 1]>>

JsNaN == Prim("number", <<"NaN">>, 0)

\* ToBoolean
Truthy(v) ==
    CASE v.t = "undefined" -> FALSE
      [] v.t = "boolean" -> v = JsTrue
      [] v.t = "number" -> v.m # 0 /\ v # JsNaN
      [] v.t = "string" -> v.s # <<>>
      [] v.t = "object" -> v # JsNull

RECURSIVE Join(_, _)
Join(texts, sep) ==
    IF texts = <<>> THEN <<>>
    ELSE IF Len(texts) = 1 THEN texts[1]
    ELSE texts[1] \o sep \o Join(Tail(texts), sep)

----------------------------------------------------------------------------
(* Configuration *)

Fields == {"appName", "version", "debugMode", "showTimestamp"}

DefaultName(v) == IF v = "app" THEN <<"StardynApp">> ELSE <<"StardynModule">>

DefaultConfig(v) ==
    [appName |-> JsStr(DefaultName(v)), version |-> JsStr(<<"1.0.0">>),
     debugMode |-> JsTrue, showTimestamp |-> JsTrue]

\* faulty variant: the argument replaces the record: unnamed fields fall to undefined
MergeReplacing(c, p) ==
    LET given(f) == IF f \in DOMAIN p THEN p[f] ELSE JsUndef
    IN  [appName |-> given("appName"), version |-> given("version"),
         debugMode |-> given("debugMode"),
         showTimestamp |-> given("showTimestamp")]

\* { ...this.config, ...config }: every own property of the argument wins,
\* a property whose value is undefined included
Merge(c, p) ==
    LET merged(f) == IF f \in DOMAIN p THEN p[f] ELSE c[f]
    IN  [appName |-> merged("appName"), version |-> merged("version"),
         debugMode |-> merged("debugMode"),
         showTimestamp |-> merged("showTimestamp")]

\* ModuleConsoleService keeps its scope name in the field moduleName
DefaultModuleConfig ==
    [moduleName |-> JsStr(<<"StardynModule">>), version |-> JsStr(<<"1.0.0">>),
     debugMode |-> JsTrue, showTimestamp |-> JsTrue]

\* ModuleConsoleService.configure
MergeModule(c, p) ==
    LET merged(f) == IF f \in DOMAIN p THEN p[f] ELSE c[f]
    IN  [moduleName |-> merged("moduleName"), version |-> merged("version"),
         debugMode |-> merged("debugMode"),
         showTimestamp |-> merged("showTimestamp")]

isLoggingEnabled(c) == c.debugMode = JsTrue

\* faulty variant: the module class still reading appName, which it does not have
scopeNameOfApp(c) == IF "appName" \in DOMAIN c THEN c.appName ELSE JsUndef

\* the name either class puts in its prefix: this.config.appName in
\* ConsoleService, this.config.moduleName in ModuleConsoleService
scopeName(c) == IF "moduleName" \in DOMAIN c THEN c.moduleName ELSE c.appName

----------------------------------------------------------------------------
(* The facade's methods as functions of the machine state                   *)
(* mm = [config, out]; `by` is the public call the invocation belongs to,   *)
(* `ts` the reading of new Date() taken by formatMessage.                   *)

stringifyArg(arg) ==
    IF arg.t = "object"
    THEN IF arg.circular THEN arg.s ELSE arg.json
    ELSE arg.s

formatMessage(c, args, ts) ==
    LET stamp == IF Truthy(c.showTimestamp) THEN <<"[", ts, "]">> ELSE <<>>
        prefix == stamp \o <<"[">> \o scopeName(c).s \o <<" v">> \o c.version.s
                        \o <<"]">>
        message == Join([i \in 1..Len(args) |-> stringifyArg(args[i])], <<" ">>)
    IN  prefix \o <<" ">> \o message

\* one invocation of console.<ch>
Console(mm, ch, text, by) ==
    [mm EXCEPT !.out = Append(@, [ch |-> ch, msg |-> text, by |-> by,
                                  dbg |-> mm.config.debugMode])]

log(mm, args, by, ts) ==
    IF ~isLoggingEnabled(mm.config) THEN mm
    ELSE Console(mm, "log", formatMessage(mm.config, args, ts), by)

info(mm, args, by, ts) ==
    IF ~isLoggingEnabled(mm.config) THEN mm
    ELSE Console(mm, "info", formatMessage(mm.config, args, ts), by)

\* faulty variant: warn without its gate
warnUngated(mm, args, by, ts) ==
    Console(mm, "warn", formatMessage(mm.config, args, ts), by)

warn(mm, args, by, ts) ==
    IF ~isLoggingEnabled(mm.config) THEN mm
    ELSE Console(mm, "warn", formatMessage(mm.config, args, ts), by)

error(mm, args, by, ts) ==
    IF ~isLoggingEnabled(mm.config) THEN mm
    ELSE Console(mm, "error", formatMessage(mm.config, args, ts), by)

\* faulty variant: debug dispatching to console.log
debugOnLog(mm, args, by, ts) ==
    IF ~isLoggingEnabled(mm.config) THEN mm
    ELSE Console(mm, "log", formatMessage(mm.config, args, ts), by)

debug(mm, args, by, ts) ==
    IF ~isLoggingEnabled(mm.config) THEN mm
    ELSE Console(mm, "debug", formatMessage(mm.config, args, ts), by)

PerformanceText(operation, timeMs) ==
    <<"Performance [">> \o operation \o <<"]: ">> \o toFixed2(timeMs) \o <<"ms">>

logPerformance(mm, operation, timeMs, by, ts) ==
    IF ~isLoggingEnabled(mm.config) THEN mm
    ELSE debug(mm, <<JsStr(PerformanceText(operation, timeMs))>>, by, ts)

\* "\u2550".repeat(30), one token per character
SeparatorLength == 30

RECURSIVE repeat(_, _)
repeat(token, n) == IF n = 0 THEN <<>> ELSE <<token>> \o repeat(token, n - 1)

separator == repeat("<U+2550>", SeparatorLength)

LifecycleText(name) ==
    <<"\n">> \o separator \o <<"\n    LIFECYCLE: ">> \o name \o <<"\n">>
        \o separator

logLifecycle(mm, name, by, ts) ==
    IF ~isLoggingEnabled(mm.config) THEN mm
    ELSE log(mm, <<JsStr(LifecycleText(name))>>, by, ts)

\* String.prototype.toUpperCase, token by token
UpperToken(token) ==
    CASE token = "get" -> "GET"
      [] token = "Post" -> "POST"
      [] OTHER -> token

toUpperCase(text) == [i \in 1..Len(text) |-> UpperToken(text[i])]

\* faulty variant: the response time reported only next to a status
ApiCallTextTimeUnderStatus(method, url, status, responseTime) ==
    LET base == <<"API ">> \o toUpperCase(method) \o <<" ">> \o url
    IN  IF Truthy(status)
        THEN IF Truthy(responseTime)
             THEN base \o <<" [">> \o status.s \o <<"]">>
                       \o <<" (">> \o toFixed2(responseTime.m) \o <<"ms)">>
             ELSE base \o <<" [">> \o status.s \o <<"]">>
        ELSE base

ApiCallText(method, url, status, responseTime) ==
    LET base == <<"API ">> \o toUpperCase(method) \o <<" ">> \o url
        withStatus == IF Truthy(status)
                      THEN base \o <<" [">> \o status.s \o <<"]">>
                      ELSE base
    IN  IF Truthy(responseTime)
        THEN withStatus \o <<" (">> \o toFixed2(responseTime.m) \o <<"ms)">>
        ELSE withStatus

logApiCall(mm, method, url, status, responseTime, by, ts) ==
    IF ~isLoggingEnabled(mm.config) THEN mm
    ELSE debug(mm, <<JsStr(ApiCallText(method, url, status, responseTime))>>,
               by, ts)

StateChangeText(componentName, stateName, newValue) ==
    LET base == <<"[">> \o componentName \o <<"] State Change: ">> \o stateName
    IN  IF newValue # JsUndef
        THEN base \o <<" = ">>
                  \o (IF newValue.t = "object" THEN <<"[Object]">> ELSE newValue.s)
        ELSE base

logStateChange(mm, componentName, stateName, newValue, by, ts) ==
    IF ~isLoggingEnabled(mm.config) THEN mm
    ELSE debug(mm, <<JsStr(StateChangeText(componentName, stateName, newValue))>>,
               by, ts)

\* an Error object: truthy, with a message property
JsError(message) ==
    [t |-> "object", s |-> <<"Error: ">> \o message, json |-> <<"{}">>,
     circular |-> FALSE, m |-> 0, message |-> message]

logError(mm, message, err, by, ts) ==
    IF ~isLoggingEnabled(mm.config) THEN mm
    ELSE IF Truthy(err)
         THEN error(mm, <<JsStr(message \o <<": ">> \o err.message)>>, by, ts)
         ELSE error(mm, <<JsStr(message)>>, by, ts)

logUserAction(mm, action, details, by, ts) ==
    IF ~isLoggingEnabled(mm.config) THEN mm
    ELSE LET base == <<"USER ACTION: ">> \o action
         IN  debug(mm, <<JsStr(IF Truthy(details)
                               THEN base \o <<" - ">> \o details.s
                               ELSE base)>>, by, ts)

logNavigation(mm, from, to, by, ts) ==
    IF ~isLoggingEnabled(mm.config) THEN mm
    ELSE debug(mm, <<JsStr(<<"NAVIGATION: ">> \o from \o <<" <U+2192> ">> \o to)>>,
               by, ts)

\* an array of strings: truthy even when empty
JsArray(items) ==
    [t |-> "object", s |-> Join(items, <<",">>),
     json |-> IF items = <<>> THEN <<"[]">>
              ELSE <<"[\n  \"">> \o Join(items, <<"\",\n  \"">>) \o <<"\"\n]">>,
     circular |-> FALSE, m |-> 0, items |-> items]

\* ModuleConsoleService only; ts2 is the second formatMessage's clock reading
logModuleInit(mm, moduleName, features, by, ts, ts2) ==
    IF ~isLoggingEnabled(mm.config) THEN mm
    ELSE LET m1 == logLifecycle(mm, <<"Module Initialized: ">> \o moduleName,
                                by, ts)
         IN  IF Truthy(features) /\ Len(features.items) > 0
             THEN info(m1, <<JsStr(<<"Features enabled: ">>
                                   \o Join(features.items, <<", ">>))>>, by, ts2)
             ELSE m1

\* ModuleConsoleService only
logServiceInit(mm, serviceName, cfg, by, ts, ts2) ==
    IF ~isLoggingEnabled(mm.config) THEN mm
    ELSE LET m1 == debug(mm, <<JsStr(<<"Service initialized: ">> \o serviceName)>>,
                         by, ts)
         IN  IF Truthy(cfg)
             THEN debug(m1, <<JsStr(<<"Configuration:">>), cfg>>, by, ts2)
             ELSE m1

\* faulty variant: enableDebug announcing before it sets the flag
enableDebugAnnouncingFirst(mm, by, ts) ==
    LET m1 == info(mm, <<JsStr(<<"Debug mode enabled">>)>>, by, ts)
    IN  [m1 EXCEPT !.config.debugMode = JsTrue]

enableDebug(mm, by, ts) ==
    info([mm EXCEPT !.config.debugMode = JsTrue],
         <<JsStr(<<"Debug mode enabled">>)>>, by, ts)

\* faulty variant: disableDebug clearing the flag before it announces
disableDebugClearingFirst(mm, by, ts) ==
    info([mm EXCEPT !.config.debugMode = JsFalse],
         <<JsStr(<<"Debug mode disabled">>)>>, by, ts)

disableDebug(mm, by, ts) ==
    LET m1 == info(mm, <<JsStr(<<"Debug mode disabled">>)>>, by, ts)
    IN  [m1 EXCEPT !.config.debugMode = JsFalse]

----------------------------------------------------------------------------
(* time, timeAsync and group: the part before the caller's function runs   *)
(* (the frame) and the part after it returned or threw.                     *)
(* An outcome is [kind |-> "value" | "raise", val |-> what].                *)

Frame(kind, name, instrumented, start, id) ==
    [kind |-> kind, name |-> name, instrumented |-> instrumented,
     start |-> start, id |-> id]

\* faulty variant: time returning at once when disabled, as group does
timeEnterGated(mm, name, now, id) ==
    IF ~isLoggingEnabled(mm.config)
    THEN [mm |-> mm, invoke |-> FALSE, frame |-> Frame("time", name, FALSE, 0, id)]
    ELSE [mm |-> mm, invoke |-> TRUE, frame |-> Frame("time", name, TRUE, now, id)]

\* time up to the call of fn: [mm, invoke, frame]; invoke says whether fn is
\* called, and start is read only when enabled
timeEnter(mm, name, now, id) ==
    IF ~isLoggingEnabled(mm.config)
    THEN [mm |-> mm, invoke |-> TRUE, frame |-> Frame("time", name, FALSE, 0, id)]
    ELSE [mm |-> mm, invoke |-> TRUE, frame |-> Frame("time", name, TRUE, now, id)]

\* faulty variant: time intercepting a failure the way timeAsync does
timeExitIntercepting(mm, frame, outcome, now, ts) ==
    IF ~frame.instrumented THEN [mm |-> mm, ret |-> outcome]
    ELSE IF outcome.kind = "raise"
         THEN [mm |-> logPerformance(mm, frame.name \o <<" (failed)">>,
                                     now - frame.start, frame.id, ts),
               ret |-> outcome]
    ELSE [mm |-> logPerformance(mm, frame.name, now - frame.start, frame.id, ts),
          ret |-> outcome]

\* faulty variant: time that forgets to report the duration
timeExitUnreported(mm, frame, outcome, now, ts) == [mm |-> mm, ret |-> outcome]

\* time from fn's completion on: [mm, ret]
timeExit(mm, frame, outcome, now, ts) ==
    IF ~frame.instrumented THEN [mm |-> mm, ret |-> outcome]
    ELSE IF outcome.kind = "raise" THEN [mm |-> mm, ret |-> outcome]
    ELSE [mm |-> logPerformance(mm, frame.name, now - frame.start, frame.id, ts),
          ret |-> outcome]

\* timeAsync up to the call of fn: [mm, invoke, frame]
timeAsyncEnter(mm, name, now, id) ==
    IF ~isLoggingEnabled(mm.config)
    THEN [mm |-> mm, invoke |-> TRUE,
          frame |-> Frame("timeAsync", name, FALSE, 0, id)]
    ELSE [mm |-> mm, invoke |-> TRUE,
          frame |-> Frame("timeAsync", name, TRUE, now, id)]

\* faulty variant: timeAsync without its catch block, as time is
timeAsyncExitUncaught(mm, frame, outcome, now, ts) ==
    IF ~frame.instrumented THEN [mm |-> mm, ret |-> outcome]
    ELSE IF outcome.kind = "raise" THEN [mm |-> mm, ret |-> outcome]
    ELSE [mm |-> logPerformance(mm, frame.name, now - frame.start, frame.id, ts),
          ret |-> outcome]

\* faulty variant: timeAsync reporting on the strength of the gate it saw when
\* called, with no second look
timeAsyncExitUnchecked(mm, frame, outcome, now, ts) ==
    LET label == IF outcome.kind = "raise" THEN frame.name \o <<" (failed)">>
                 ELSE frame.name
    IN  IF ~frame.instrumented THEN [mm |-> mm, ret |-> outcome]
        ELSE [mm |-> Console(mm, "debug",
                             formatMessage(mm.config,
                                           <<JsStr(PerformanceText(
                                                 label, now - frame.start))>>, ts),
                             frame.id),
              ret |-> outcome]

\* timeAsync from the settling of `await fn()` on: [mm, ret]
timeAsyncExit(mm, frame, outcome, now, ts) ==
    IF ~frame.instrumented THEN [mm |-> mm, ret |-> outcome]
    ELSE IF outcome.kind = "raise"
         THEN [mm |-> logPerformance(mm, frame.name \o <<" (failed)">>,
                                     now - frame.start, frame.id, ts),
               ret |-> outcome]
    ELSE [mm |-> logPerformance(mm, frame.name, now - frame.start, frame.id, ts),
          ret |-> outcome]

Void == [kind |-> "value", val |-> "undefined"]
NoOutcome == [kind |-> "none", val |-> "none"]

\* group up to the call of logFn: [mm, invoke, frame]
groupEnter(mm, groupName, by, ts) ==
    IF ~isLoggingEnabled(mm.config)
    THEN [mm |-> mm, invoke |-> FALSE,
          frame |-> Frame("group", groupName, FALSE, 0, by)]
    ELSE [mm |-> Console(mm, "group",
                         formatMessage(mm.config, <<JsStr(groupName)>>, ts), by),
          invoke |-> TRUE, frame |-> Frame("group", groupName, TRUE, 0, by)]

\* group from logFn's completion on: [mm, ret]
groupExit(mm, frame, outcome) ==
    IF outcome.kind = "raise" THEN [mm |-> mm, ret |-> outcome]
    ELSE [mm |-> Console(mm, "groupEnd", <<>>, frame.id), ret |-> Void]

\* faulty variant: getConfig handing out this.config itself
getConfigByReference(c) == [obj |-> c, same |-> TRUE]

\* getConfig: the object handed to the caller, and whether it is this.config
getConfig(c) == [obj |-> c, same |-> FALSE]

----------------------------------------------------------------------------
(* Inputs *)

Names == {<<"op">>}
TimeStamps == {"09:15:42"}                 \* HH:MM:SS of new Date()
PerfNow == {250, 1985}                     \* performance.now(), thousandths
PerfStart == {250}                         \* its reading when a call begins
OpValues == {"v1", "v2"}                   \* what a caller's function returns
OpErrors == {"X"}                          \* what a caller's function throws

LogArgs == {<<JsStr(<<"hello">>)>>, <<JsStr(<<"user">>), JsObj>>, <<JsCyclic>>}

\* what a caller-supplied function passes when it logs
FnLogArgs == {<<JsStr(<<"hello">>)>>}

FieldValues(f) ==
    CASE f = "appName" -> {JsUndef}
      [] f = "version" -> {JsStr(<<"2.0.0">>)}
      [] f = "debugMode" -> {JsTrue, JsFalse}
      [] f = "showTimestamp" -> {JsTrue, JsFalse}

AllFieldValues == UNION {FieldValues(f) : f \in Fields}

\* Partial<ConsoleConfig>: any subset of the fields, each with a value
Partials ==
    UNION {{p \in [S -> AllFieldValues] : \A f \in S : p[f] \in FieldValues(f)} :
           S \in SUBSET Fields}

NoSnapshot == [none |-> TRUE]
NoPeer == [alone |-> TRUE]

\* the partial configuration that names, for the module class, what p names
ModulePartial(p) ==
    LET Renamed(f) == IF f = "appName" THEN "moduleName" ELSE f
        Original(g) == IF g = "moduleName" THEN "appName" ELSE g
    IN  [g \in {Renamed(f) : f \in DOMAIN p} |-> p[Original(g)]]

----------------------------------------------------------------------------
(* State machine *)

Label(op, id, gate, phase, runs, arg) ==
    [op |-> op, id |-> id, gate |-> gate, phase |-> phase, runs |-> runs,
     arg |-> arg]

IdleLabel == Label("idle", 0, FALSE, "done", 0, <<>>)

Init ==
    /\ variant \in {"app", "module"}
    /\ config = DefaultConfig(variant)
    /\ snapshot = NoSnapshot
    /\ aliased = FALSE
    /\ out = <<>>
    /\ stack = <<>>
    /\ pending = <<>>
    /\ calls = 0
    /\ opOutcome = NoOutcome
    /\ ret = NoOutcome
    /\ last = IdleLabel
    /\ peer = NoPeer

Idle == stack = <<>> /\ last = IdleLabel
Outermost == stack = <<>>
\* a job starts with a call from idle; a function under way makes further calls
MayCall == Idle \/ (stack # <<>> /\ calls < MaxCalls)
NewId == calls + 1
Machine == [config |-> config, out |-> out]
Top == stack[Len(stack)]
PeerMachine == [config |-> peer.config, out |-> peer.out]
PeerTop == peer.stack[Len(peer.stack)]
\* the facades a call is handed to
Facades == IF peer = NoPeer THEN {Machine} ELSE {Machine, PeerMachine}
ArgsHere == IF Outermost THEN LogArgs ELSE FnLogArgs

\* a call that runs to completion in one step, writing this.config in place
Complete(op, F, R, arg) ==
    LET m2 == F[Machine]
    IN  /\ MayCall
        /\ config' = m2.config
        /\ snapshot' = IF aliased THEN m2.config ELSE snapshot
        /\ out' = m2.out
        /\ calls' = NewId
        /\ ret' = R[Machine]
        /\ last' = Label(op, NewId, isLoggingEnabled(config), "done", 0, arg)
        /\ peer' = IF peer = NoPeer THEN peer
                   ELSE [peer EXCEPT !.config = F[PeerMachine].config,
                                     !.out = F[PeerMachine].out,
                                     !.ret = R[PeerMachine]]
        /\ UNCHANGED <<variant, aliased, stack, pending, opOutcome>>

\* the same, for the methods a caller-supplied function is not taken to call
CompleteOutermost(op, F, R, arg) == Outermost /\ Complete(op, F, R, arg)

\* a call that hands control to the caller's function
Invoke(E) ==
    LET e == E[Machine]
    IN  /\ MayCall
        /\ Len(stack) < MaxDepth
        /\ stack' = Append(stack, e.frame)
        /\ out' = e.mm.out
        /\ calls' = NewId
        /\ last' = Label(e.frame.kind, NewId, isLoggingEnabled(config), "enter", 1,
                         e.frame.name)
        /\ peer' = IF peer = NoPeer THEN peer
                   ELSE [peer EXCEPT !.out = E[PeerMachine].mm.out,
                                     !.stack = Append(@, E[PeerMachine].frame)]
        /\ UNCHANGED <<variant, config, snapshot, aliased, pending, opOutcome,
                       ret>>

\* the job has run to completion: what was observed of it is let go
JobEnd ==
    /\ stack = <<>>
    /\ last # IdleLabel
    /\ out' = <<>>
    /\ calls' = 0
    /\ opOutcome' = NoOutcome
    /\ ret' = NoOutcome
    /\ last' = IdleLabel
    /\ peer' = IF peer = NoPeer THEN peer
               ELSE [peer EXCEPT !.out = <<>>, !.ret = NoOutcome]
    /\ UNCHANGED <<variant, config, snapshot, aliased, stack, pending>>

Configure ==
    \E p \in Partials :
        /\ Idle
        /\ config' = Merge(config, p)
        /\ aliased' = FALSE
        /\ calls' = NewId
        /\ ret' = Void
        /\ last' = Label("configure", NewId, isLoggingEnabled(config), "done", 0, p)
        /\ peer' = IF peer = NoPeer THEN peer
                   ELSE [peer EXCEPT !.config = MergeModule(@, ModulePartial(p)),
                                     !.ret = Void]
        /\ UNCHANGED <<variant, snapshot, out, stack, pending, opOutcome>>

GetConfig ==
    LET g == getConfig(config)
    IN  /\ Idle
        /\ snapshot' = g.obj
        /\ aliased' = g.same
        /\ calls' = NewId
        /\ ret' = [kind |-> "value", val |-> "snapshot"]
        /\ last' = Label("getConfig", NewId, isLoggingEnabled(config), "done", 0,
                         <<>>)
        /\ UNCHANGED <<variant, config, out, stack, pending, opOutcome, peer>>

\* the caller assigns to a field of the record getConfig returned
MutateSnapshot ==
    \E f \in Fields : \E v \in FieldValues(f) :
        /\ Idle
        /\ snapshot # NoSnapshot
        /\ snapshot' = [snapshot EXCEPT ![f] = v]
        /\ config' = IF aliased THEN snapshot' ELSE config
        /\ last' = Label("mutateSnapshot", 0, isLoggingEnabled(config), "done", 0,
                         <<f>>)
        /\ UNCHANGED <<variant, aliased, out, stack, pending, calls, opOutcome,
                       ret, peer>>

IsDebugEnabled ==
    CompleteOutermost("isDebugEnabled", [mm \in Facades |-> mm],
                      [mm \in Facades |-> [kind |-> "value",
                                   val |-> IF isLoggingEnabled(mm.config)
                                           THEN "true" ELSE "false"]], <<>>)

EnableDebug ==
    \E ts \in TimeStamps :
        Complete("enableDebug", [mm \in Facades |-> enableDebug(mm, NewId, ts)], [mm \in Facades |-> Void], <<>>)

DisableDebug ==
    \E ts \in TimeStamps :
        Complete("disableDebug", [mm \in Facades |-> disableDebug(mm, NewId, ts)], [mm \in Facades |-> Void], <<>>)

Log ==
    \E args \in ArgsHere, ts \in TimeStamps :
        Complete("log", [mm \in Facades |-> log(mm, args, NewId, ts)], [mm \in Facades |-> Void], <<>>)

Info ==
    \E args \in LogArgs, ts \in TimeStamps :
        CompleteOutermost("info", [mm \in Facades |-> info(mm, args, NewId, ts)], [mm \in Facades |-> Void], <<>>)

Warn ==
    \E args \in LogArgs, ts \in TimeStamps :
        CompleteOutermost("warn", [mm \in Facades |-> warn(mm, args, NewId, ts)], [mm \in Facades |-> Void], <<>>)

Error ==
    \E args \in LogArgs, ts \in TimeStamps :
        CompleteOutermost("error", [mm \in Facades |-> error(mm, args, NewId, ts)], [mm \in Facades |-> Void], <<>>)

Debug ==
    \E args \in LogArgs, ts \in TimeStamps :
        CompleteOutermost("debug", [mm \in Facades |-> debug(mm, args, NewId, ts)], [mm \in Facades |-> Void], <<>>)

LogPerformance ==
    \E name \in Names, t \in PerfNow, ts \in TimeStamps :
        CompleteOutermost("logPerformance",
                          [mm \in Facades |-> logPerformance(mm, name, t, NewId, ts)], [mm \in Facades |-> Void], <<>>)

LogLifecycle ==
    \E ts \in TimeStamps :
        CompleteOutermost("logLifecycle",
                          [mm \in Facades |-> logLifecycle(mm, <<"Init">>, NewId, ts)], [mm \in Facades |-> Void], <<>>)

LogApiCall ==
    \E method \in {<<"get">>, <<"Post">>},
       status \in {JsUndef, JsNum(0), JsNaN, JsNum(200000)},
       responseTime \in {JsUndef, JsNum(0), JsNaN, JsNum(150500), JsNum(1234)},
       ts \in TimeStamps :
        CompleteOutermost("logApiCall",
                          [mm \in Facades |-> logApiCall(mm, method, <<"/api/users">>, status,
                                     responseTime, NewId, ts)], [mm \in Facades |-> Void],
                          [method |-> method, url |-> <<"/api/users">>,
                           status |-> status, responseTime |-> responseTime])

LogStateChange ==
    \E newValue \in {JsUndef, JsNum(0), JsFalse, JsEmptyStr, JsStr(<<"x">>), JsObj,
                     JsArray(<<<<"a">>>>), JsNull},
       ts \in TimeStamps :
        CompleteOutermost("logStateChange",
                          [mm \in Facades |-> logStateChange(mm, <<"UserList">>,
                                         <<"selectedUser">>, newValue, NewId, ts)],
                          [mm \in Facades |-> Void], [componentName |-> <<"UserList">>,
                                 stateName |-> <<"selectedUser">>,
                                 newValue |-> newValue])

LogError ==
    \E err \in {JsUndef, JsError(<<"boom">>)}, ts \in TimeStamps :
        CompleteOutermost("logError",
                          [mm \in Facades |-> logError(mm, <<"Failed">>, err, NewId, ts)], [mm \in Facades |-> Void],
                          <<>>)

LogUserAction ==
    \E details \in {JsUndef, JsEmptyStr, JsStr(<<"button">>)}, ts \in TimeStamps :
        CompleteOutermost("logUserAction",
                          [mm \in Facades |-> logUserAction(mm, <<"click">>, details, NewId, ts)],
                          [mm \in Facades |-> Void], <<>>)

LogNavigation ==
    \E ts \in TimeStamps :
        CompleteOutermost("logNavigation",
                          [mm \in Facades |-> logNavigation(mm, <<"/home">>, <<"/users">>, NewId,
                                        ts)], [mm \in Facades |-> Void], <<>>)

LogModuleInit ==
    \E features \in {JsUndef, JsArray(<<>>), JsArray(<<<<"a">>, <<"b">>>>)},
       ts \in TimeStamps, ts2 \in TimeStamps :
        /\ variant = "module"
        /\ CompleteOutermost("logModuleInit",
                             [mm \in Facades |-> logModuleInit(mm, <<"Users">>, features, NewId,
                                           ts, ts2)], [mm \in Facades |-> Void], <<>>)

LogServiceInit ==
    \E cfg \in {JsUndef, JsNum(0), JsFalse, JsEmptyStr, JsObj},
       ts \in TimeStamps, ts2 \in TimeStamps :
        /\ variant = "module"
        /\ CompleteOutermost("logServiceInit",
                             [mm \in Facades |-> logServiceInit(mm, <<"Auth">>, cfg, NewId, ts,
                                            ts2)], [mm \in Facades |-> Void],
                             [serviceName |-> <<"Auth">>, config |-> cfg])

\* a call of time, timeAsync or group, begun as `e` says
Begin(E) ==
    IF E[Machine].invoke THEN Invoke(E)
    ELSE Complete(E[Machine].frame.kind, [mm \in Facades |-> E[mm].mm], [mm \in Facades |-> Void],
                  E[Machine].frame.name)

Time ==
    \E name \in Names, now \in PerfStart :
        Begin([mm \in Facades |-> timeEnter(mm, name, now, NewId)])

\* timeAsync calls under way or suspended
AsyncUnderWay ==
    Len(pending) + Cardinality({i \in 1..Len(stack) : stack[i].kind = "timeAsync"})

TimeAsync ==
    \E name \in Names, now \in PerfStart :
        /\ AsyncUnderWay < MaxPending
        /\ Begin([mm \in Facades |-> timeAsyncEnter(mm, name, now, NewId)])

Group ==
    \E name \in Names, ts \in TimeStamps :
        Begin([mm \in Facades |-> groupEnter(mm, name, NewId, ts)])

\* the rest of the handler whose function just completed with `outcome`
Exit(mm, frame, outcome, now, ts) ==
    CASE frame.kind = "time" -> timeExit(mm, frame, outcome, now, ts)
      [] frame.kind = "timeAsync" -> timeAsyncExit(mm, frame, outcome, now, ts)
      [] frame.kind = "group" -> groupExit(mm, frame, outcome)

Unwind(frame, outcome, now, ts) ==
    LET r == Exit(Machine, frame, outcome, now, ts)
        pr == Exit(PeerMachine, PeerTop, outcome, now, ts)
    IN  /\ stack' = SubSeq(stack, 1, Len(stack) - 1)
        /\ peer' = IF peer = NoPeer THEN peer
                   ELSE [peer EXCEPT !.config = pr.mm.config, !.out = pr.mm.out,
                                     !.ret = pr.ret,
                                     !.stack = SubSeq(@, 1, Len(@) - 1)]
        /\ config' = r.mm.config
        /\ snapshot' = IF aliased THEN r.mm.config ELSE snapshot
        /\ out' = r.mm.out
        /\ ret' = r.ret
        /\ opOutcome' = outcome
        /\ last' = Label(frame.kind, frame.id, frame.instrumented, "done", 1,
                         frame.name)
        /\ UNCHANGED <<variant, aliased, pending, calls>>

\* the function running under time or group returns
FnReturn ==
    \E v \in OpValues, now \in PerfNow, ts \in TimeStamps :
        /\ stack # <<>>
        /\ Top.kind \in {"time", "group"}
        /\ now >= Top.start
        /\ Unwind(Top, [kind |-> "value", val |-> v], now, ts)

\* the function running under time, timeAsync or group throws
FnThrow ==
    \E x \in OpErrors, now \in PerfNow, ts \in TimeStamps :
        /\ stack # <<>>
        /\ now >= Top.start
        /\ Unwind(Top, [kind |-> "raise", val |-> x], now, ts)

\* the function running under timeAsync returns its promise: `await` suspends
\* the call, which resumes in a later job (where it is that job's call)
FnSuspend ==
    /\ stack # <<>>
    /\ Top.kind = "timeAsync"
    /\ stack' = SubSeq(stack, 1, Len(stack) - 1)
    /\ pending' = Append(pending, [Top EXCEPT !.id = 0])
    /\ ret' = [kind |-> "pending", val |-> "promise"]
    /\ opOutcome' = [kind |-> "pending", val |-> "promise"]
    /\ last' = Label("timeAsync", Top.id, Top.instrumented, "suspended", 1,
                     Top.name)
    /\ peer' = IF peer = NoPeer THEN peer
               ELSE [peer EXCEPT !.stack = SubSeq(@, 1, Len(@) - 1),
                                 !.pending = Append(@, [PeerTop EXCEPT !.id = 0]),
                                 !.ret = [kind |-> "pending", val |-> "promise"]]
    /\ UNCHANGED <<variant, config, snapshot, aliased, out, calls>>

\* a later job: the awaited promise settles and timeAsync resumes
Settle ==
    \E i \in 1..Len(pending), kind \in {"value", "raise"},
       now \in PerfNow, ts \in TimeStamps :
        \E val \in IF kind = "value" THEN OpValues ELSE OpErrors :
            LET frame == [pending[i] EXCEPT !.id = NewId]
                outcome == [kind |-> kind, val |-> val]
                r == timeAsyncExit(Machine, frame, outcome, now, ts)
                pr == timeAsyncExit(PeerMachine,
                                    [peer.pending[i] EXCEPT !.id = NewId],
                                    outcome, now, ts)
                Without(q) == [j \in 1..(Len(q) - 1) |->
                                 IF j < i THEN q[j] ELSE q[j + 1]]
            IN  /\ Idle
                /\ peer' = IF peer = NoPeer THEN peer
                           ELSE [peer EXCEPT !.config = pr.mm.config,
                                             !.out = pr.mm.out, !.ret = pr.ret,
                                             !.pending = Without(@)]
                /\ now >= frame.start
                /\ pending' = [j \in 1..(Len(pending) - 1) |->
                                 IF j < i THEN pending[j] ELSE pending[j + 1]]
                /\ config' = r.mm.config
                /\ snapshot' = IF aliased THEN r.mm.config ELSE snapshot
                /\ out' = r.mm.out
                /\ calls' = NewId
                /\ ret' = r.ret
                /\ opOutcome' = outcome
                /\ last' = Label("timeAsync", NewId, frame.instrumented, "done", 1,
                                 frame.name)
                /\ UNCHANGED <<variant, aliased, stack>>

\* the facade and the functions its callers hand it
Next ==
    \/ Configure \/ IsDebugEnabled \/ EnableDebug \/ DisableDebug
    \/ Log \/ Info \/ Warn \/ Error \/ Debug
    \/ LogPerformance \/ LogLifecycle \/ LogApiCall \/ LogStateChange
    \/ LogError \/ LogUserAction \/ LogNavigation
    \/ LogModuleInit \/ LogServiceInit
    \/ Time \/ TimeAsync \/ Group
    \/ FnReturn \/ FnThrow \/ FnSuspend \/ Settle
    \/ JobEnd

Spec == Init /\ [][Next]_vars

\* the configuration record and the snapshots callers hold of it
NextConfig ==
    \/ Configure \/ GetConfig \/ MutateSnapshot \/ IsDebugEnabled
    \/ EnableDebug \/ DisableDebug \/ Log
    \/ JobEnd

SpecConfig == Init /\ [][NextConfig]_vars

\* what the factories are handed: createConsole(config) and
\* createModuleConsole(config) with the same scope name
FactoryConfigs ==
    {[appName |-> JsStr(<<"Shop">>)],
     [appName |-> JsStr(<<"Shop">>), showTimestamp |-> JsFalse]}

\* a ConsoleService and a ModuleConsoleService, each constructed and configured
InitPair ==
    \E p \in FactoryConfigs :
        /\ variant = "app"
        /\ config = Merge(DefaultConfig("app"), p)
        /\ peer = [config |-> MergeModule(DefaultModuleConfig, ModulePartial(p)),
                   out |-> <<>>, ret |-> NoOutcome, stack |-> <<>>,
                   pending |-> <<>>]
        /\ snapshot = NoSnapshot
        /\ aliased = FALSE
        /\ out = <<>>
        /\ stack = <<>>
        /\ pending = <<>>
        /\ calls = 0
        /\ opOutcome = NoOutcome
        /\ ret = NoOutcome
        /\ last = IdleLabel

\* the operations the two classes have in common
NextPair ==
    \/ Configure \/ IsDebugEnabled \/ EnableDebug \/ DisableDebug
    \/ Log \/ Info \/ Warn \/ Error \/ Debug
    \/ LogPerformance \/ LogLifecycle \/ LogApiCall \/ LogStateChange
    \/ LogError \/ LogUserAction \/ LogNavigation
    \/ Time \/ TimeAsync \/ Group
    \/ FnReturn \/ FnThrow \/ FnSuspend \/ Settle
    \/ JobEnd

SpecPair == InitPair /\ [][NextPair]_vars

----------------------------------------------------------------------------
(* Properties *)

\* the console invocations made by call `id` itself, in order
Made(id) == SelectSeq(out, LAMBDA e : e.by = id)

Tokens(text) == {text[i] : i \in 1..Len(text)}

Severity == {"log", "info", "warn", "error", "debug"}

LoggingMethods ==
    Severity \cup
    {"logPerformance", "logLifecycle", "logApiCall", "logStateChange", "logError",
     "logUserAction", "logNavigation", "group", "time", "timeAsync",
     "logModuleInit", "logServiceInit"}

IsDigit(token) == \E k \in 1..Len(Digit) : Digit[k] = token

\* text is "<digits>.<2 digits>"
IsFixed2(text) ==
    /\ Len(text) >= 4
    /\ \A j \in 1..Len(text) :
           IF j = Len(text) - 2 THEN text[j] = "." ELSE IsDigit(text[j])

\* text is "<prefix> Performance [<label>]: <digits>.<2 digits>ms"
IsPerformanceLine(text, label) ==
    \E i \in 1..Len(text) :
        /\ SubSeq(text, i, i + Len(label) + 1)
               = <<"Performance [">> \o label \o <<"]: ">>
        /\ text[Len(text)] = "ms"
        /\ IsFixed2(SubSeq(text, i + Len(label) + 2, Len(text) - 1))

\* a call of a wrapper has run to its end
Finished(op) == last.op = op /\ last.phase = "done"

(* C1: when debug mode is off as a logging method is called, that call     *)
(* itself invokes no console channel, console.group or console.groupEnd,   *)
(* neither while the caller's function runs nor once the call has ended.   *)
C1_ClosedGateIsSilent ==
    /\ (last.op \in LoggingMethods /\ ~last.gate) => Made(last.id) = <<>>
    /\ \A k \in 1..Len(stack) :
           ~stack[k].instrumented => Made(stack[k].id) = <<>>

\* time called with debug off, the function switched debug on and logged,
\* and time itself stayed silent
C1_Witness ==
    /\ Finished("time") /\ ~last.gate
    /\ isLoggingEnabled(config)
    /\ out # <<>>

(* C2: with debug mode off, time and timeAsync still call the function     *)
(* once and hand its value or its failure to the caller unchanged, and     *)
(* make no console invocation.                                             *)
C2_DisabledTimingIsTransparent ==
    (last.op \in {"time", "timeAsync"} /\ ~last.gate) =>
        /\ last.runs = 1
        /\ last.phase = "done" =>
               /\ opOutcome.kind \in {"value", "raise"}
               /\ ret = opOutcome
               /\ Made(last.id) = <<>>

\* a suspended timeAsync started with debug off was rejected with X
C2_Witness ==
    /\ Finished("timeAsync") /\ ~last.gate
    /\ ret = [kind |-> "raise", val |-> "X"]
    /\ pending = <<>> /\ stack = <<>>

\* the one console invocation call `id` made is a debug line reporting `label`
OnePerformanceLine(id, label) ==
    /\ Len(Made(id)) = 1
    /\ Made(id)[1].ch = "debug"
    /\ IsPerformanceLine(Made(id)[1].msg, label)
    /\ out[Len(out)].by = id

(* C3 as stated: timeAsync called with debug on whose function fails emits *)
(* one debug performance line labelled "<name> (failed)" and hands the     *)
(* caller the same failure.                                                *)
C3_AsStated ==
    (Finished("timeAsync") /\ last.gate /\ opOutcome.kind = "raise") =>
        /\ OnePerformanceLine(last.id, last.arg \o <<" (failed)">>)
        /\ ret = opOutcome

(* C3, amended: the same, when debug mode is still on as the function      *)
(* fails; the line is the last thing the console saw.                      *)
C3_FailedLineWhenStillEnabled ==
    (/\ Finished("timeAsync") /\ last.gate /\ opOutcome.kind = "raise"
     /\ isLoggingEnabled(config)) =>
        /\ OnePerformanceLine(last.id, last.arg \o <<" (failed)">>)
        /\ ret = opOutcome

\* a timeAsync suspended with debug on was rejected in a later job
C3_Witness ==
    /\ Finished("timeAsync") /\ last.gate /\ opOutcome.kind = "raise"
    /\ isLoggingEnabled(config)
    /\ last.id = 1 /\ Len(out) = 1

(* C4: when the function under time throws, the caller receives that       *)
(* failure and time itself makes no console invocation.                    *)
C4_TimeLetsFailuresThrough ==
    (Finished("time") /\ opOutcome.kind = "raise") =>
        /\ ret = opOutcome
        /\ Made(last.id) = <<>>

\* time called with debug on and still on, the function logged and threw
C4_Witness ==
    /\ Finished("time") /\ last.gate /\ opOutcome.kind = "raise"
    /\ isLoggingEnabled(config)
    /\ out # <<>>

(* C5 as stated: time called with debug on whose function returns emits    *)
(* one debug line "Performance [<name>]: <duration>ms" after everything    *)
(* the function emitted, and returns the function's value.                 *)
C5_AsStated ==
    (Finished("time") /\ last.gate /\ opOutcome.kind = "value") =>
        /\ last.runs = 1
        /\ OnePerformanceLine(last.id, last.arg)
        /\ ret = opOutcome

(* C5, amended: the same, when debug mode is still on as the function      *)
(* returns.                                                                *)
C5_PerformanceLineWhenStillEnabled ==
    (/\ Finished("time") /\ last.gate /\ opOutcome.kind = "value"
     /\ isLoggingEnabled(config)) =>
        /\ last.runs = 1
        /\ OnePerformanceLine(last.id, last.arg)
        /\ ret = opOutcome

\* the function logged before it returned; the performance line follows
C5_Witness ==
    /\ Finished("time") /\ last.gate /\ opOutcome.kind = "value"
    /\ isLoggingEnabled(config)
    /\ Len(out) = 2 /\ out[1].ch = "log" /\ out[1].by # last.id

(* C6: disableDebug called with debug on makes one info invocation holding *)
(* "Debug mode disabled", made while debugMode was still true, and leaves  *)
(* debugMode false, so that the gate is closed from then on.               *)
C6_DisableAnnouncesThenCloses ==
    last.op = "disableDebug" =>
        /\ config.debugMode = JsFalse
        /\ ~isLoggingEnabled(config)
        /\ last.gate =>
               /\ Len(Made(last.id)) = 1
               /\ Made(last.id)[1].ch = "info"
               /\ "Debug mode disabled" \in Tokens(Made(last.id)[1].msg)
               /\ Made(last.id)[1].dbg = JsTrue

C6_Witness ==
    /\ last.op = "disableDebug" /\ last.gate
    /\ Len(out) = 1 /\ out[1].ch = "info"

(* C7: enableDebug called with debug off leaves debugMode true and makes   *)
(* one info invocation holding "Debug mode enabled", made with debugMode   *)
(* already true.                                                           *)
C7_EnableOpensThenAnnounces ==
    last.op = "enableDebug" =>
        /\ isLoggingEnabled(config)
        /\ Len(Made(last.id)) = 1
        /\ Made(last.id)[1].ch = "info"
        /\ "Debug mode enabled" \in Tokens(Made(last.id)[1].msg)
        /\ Made(last.id)[1].dbg = JsTrue

\* enableDebug after configure({debugMode: false})
C7_Witness ==
    /\ last.op = "enableDebug" /\ ~last.gate
    /\ Len(out) = 1 /\ out[1].ch = "info"

(* C8: configure(p) gives every field p names p's value and leaves every   *)
(* other field as it was (so successive calls on disjoint fields add up).  *)
C8_ConfigureMerges ==
    [][(last = IdleLabel /\ last'.op = "configure") =>
           \A f \in Fields :
               config'[f] = IF f \in DOMAIN last'.arg THEN last'.arg[f]
                            ELSE config[f]]_vars

\* configure({showTimestamp: false}) after an earlier configure changed version
C8_Witness ==
    /\ last.op = "configure" /\ DOMAIN last.arg = {"showTimestamp"}
    /\ config.showTimestamp = JsFalse
    /\ config.version = JsStr(<<"2.0.0">>)

(* C9: no field of the configuration is ever absent (undefined).           *)
C9_FullyPopulated == \A f \in Fields : config[f] # JsUndef

(* C10: getConfig hands out a record equal to the configuration; assigning *)
(* to its fields changes neither the configuration nor the gate nor the    *)
(* prefix, and configure, enableDebug and disableDebug leave it alone.     *)
C10_SnapshotIsACopy ==
    [][/\ (last = IdleLabel /\ last'.op = "getConfig") =>
              (snapshot' = config /\ config' = config)
       /\ (last = IdleLabel /\ last'.op = "mutateSnapshot") =>
              /\ config' = config
              /\ isLoggingEnabled(config') = isLoggingEnabled(config)
              /\ \A ts \in TimeStamps :
                     formatMessage(config', <<>>, ts) = formatMessage(config, <<>>, ts)
       /\ (last = IdleLabel
             /\ last'.op \in {"configure", "enableDebug", "disableDebug"}) =>
              snapshot' = snapshot]_vars

\* a snapshot whose debugMode the caller changed, and a facade reconfigured since
C10_Witness ==
    /\ snapshot # NoSnapshot
    /\ snapshot.debugMode = JsFalse /\ config.debugMode = JsTrue
    /\ snapshot.version # config.version
    /\ last.op = "configure"

\* the positions in `out` of the console invocations call `id` made itself
Positions(id) == {i \in 1..Len(out) : out[i].by = id}

\* console.group(formatMessage(name)) as call `id` made it
IsGroupHeader(e, id, name) ==
    /\ e.ch = "group" /\ e.by = id
    /\ \E ts \in TimeStamps : e.msg = formatMessage(config, <<JsStr(name)>>, ts)

(* C11: group called with debug on makes console.group with the formatted  *)
(* name, runs the function once, and makes console.groupEnd after          *)
(* everything the function emitted; called with debug off it neither runs  *)
(* the function nor touches the console.                                   *)
C11_GroupBrackets ==
    /\ (last.op = "group" /\ ~last.gate) =>
           (last.phase = "done" /\ last.runs = 0 /\ Made(last.id) = <<>>)
    /\ (last.op = "group" /\ last.gate) => last.runs = 1
    /\ (Finished("group") /\ last.gate) =>
           /\ Len(Made(last.id)) = 2
           /\ IsGroupHeader(Made(last.id)[1], last.id, last.arg)
           /\ Made(last.id)[2].ch = "groupEnd"
           /\ out[Len(out)].by = last.id
           /\ \A j \in 1..Len(out) :
                  out[j].by > last.id =>
                      \E i \in Positions(last.id) : i < j /\ out[i].ch = "group"

\* the console channel each method is to reach
ChannelOf(op) ==
    CASE op \in Severity -> op
      [] op \in {"logPerformance", "logApiCall", "logStateChange", "logUserAction",
                 "logNavigation"} -> "debug"
      [] op = "logLifecycle" -> "log"
      [] op = "logError" -> "error"
      [] op \in {"enableDebug", "disableDebug"} -> "info"

SingleChannelMethods ==
    Severity \cup
    {"logPerformance", "logApiCall", "logStateChange", "logUserAction",
     "logNavigation", "logLifecycle", "logError", "enableDebug", "disableDebug"}

(* C12: with debug mode on, each of log, info, warn, error and debug makes *)
(* one console invocation, on the channel of its own name; logPerformance, *)
(* logApiCall, logStateChange, logUserAction and logNavigation make theirs *)
(* on debug, logLifecycle on log, logError on error, and enableDebug and   *)
(* disableDebug announce on info.                                          *)
C12_EachMethodItsChannel ==
    (last.op \in SingleChannelMethods /\ last.gate) =>
        /\ Len(Made(last.id)) = 1
        /\ Made(last.id)[1].ch = ChannelOf(last.op)
        /\ Made(last.id)[1].ch \in Severity

\* logApiCall with debug on reached console.debug
C12_Witness ==
    /\ last.op = "logApiCall" /\ last.gate
    /\ Len(out) = 1 /\ out[1].ch = "debug" /\ out[1].by = last.id

\* the text after the prefix: formatMessage puts "] " and the message last
Body(c, msg) == SubSeq(msg, Len(formatMessage(c, <<>>, "")) + 1, Len(msg))

\* "API <METHOD> <url>" with the suffixes asked for
ApiMessage(a, withStatus, withTime) ==
    <<"API ">> \o (IF a.method = <<"get">> THEN <<"GET">> ELSE <<"POST">>)
        \o <<" ">> \o a.url
        \o (IF withStatus THEN <<" [">> \o a.status.s \o <<"]">> ELSE <<>>)
        \o (IF withTime THEN <<" (">> \o toFixed2(a.responseTime.m) \o <<"ms)">>
            ELSE <<>>)

\* the call under way emitted exactly `text` after the prefix, on debug
EmitsOnDebug(text) ==
    /\ Len(Made(last.id)) = 1
    /\ Made(last.id)[1].ch = "debug"
    /\ Body(config, Made(last.id)[1].msg) = text

ProvidedNonZero(v) == v # JsUndef /\ v # JsNum(0)

(* C13 as stated: logApiCall with debug on emits on debug "API <METHOD>    *)
(* <url>", then " [<status>]" exactly when status is given and not zero,   *)
(* then " (<time to 2 decimals>ms)" exactly when the time is given and not *)
(* zero.                                                                   *)
C13_AsStated ==
    (last.op = "logApiCall" /\ last.gate) =>
        EmitsOnDebug(ApiMessage(last.arg, ProvidedNonZero(last.arg.status),
                                ProvidedNonZero(last.arg.responseTime)))

ProvidedTruthy(v) == v # JsUndef /\ v # JsNum(0) /\ v # JsNaN

(* C13, amended: the same, each suffix being appended exactly when its     *)
(* value is given and is neither zero nor NaN.                             *)
C13_SuffixesWhenTruthy ==
    (last.op = "logApiCall" /\ last.gate) =>
        EmitsOnDebug(ApiMessage(last.arg, ProvidedTruthy(last.arg.status),
                                ProvidedTruthy(last.arg.responseTime)))

\* post with status 0 and 150.5 ms: the time suffix alone, to two decimals
C13_Witness ==
    /\ last.op = "logApiCall" /\ last.gate
    /\ last.arg.status = JsNum(0) /\ last.arg.responseTime = JsNum(150500)
    /\ last.arg.method = <<"Post">>
    /\ Len(out) = 1
    /\ Body(config, out[1].msg)
           = <<"API ", "POST", " ", "/api/users", " (", "1", "5", "0", ".", "5", "0",
                "ms)">>

\* an object or an array, as opposed to a scalar (null is a scalar)
Structured(v) == v.t = "object" /\ v # JsNull

\* "[<component>] State Change: <state>" and " = <value>" for a value given
StateMessage(a) ==
    <<"[">> \o a.componentName \o <<"] State Change: ">> \o a.stateName
        \o (IF a.newValue = JsUndef THEN <<>>
            ELSE <<" = ">> \o (IF Structured(a.newValue) THEN <<"[Object]">>
                               ELSE a.newValue.s))

(* C14: logStateChange with debug on emits on debug "[<component>] State   *)
(* Change: <state>", followed by " = <value>" exactly when a value was     *)
(* given (0, false and "" included), where a structured value reads        *)
(* "[Object]" and a scalar reads as its natural text.                      *)
C14_StateChangeText ==
    (last.op = "logStateChange" /\ last.gate) => EmitsOnDebug(StateMessage(last.arg))

\* how a logged value reads: an object as indented JSON, a scalar as its text
Rendering(v) == IF v.t = "object" THEN v.json ELSE v.s

(* C15: logServiceInit with debug on emits on debug "Service initialized:  *)
(* <serviceName>" and, whenever a config value is given (0, false and ""   *)
(* included), a second debug line "Configuration:" followed by the value's *)
(* rendering; with no config value it emits the first line only.           *)
C15_ServiceInitLines ==
    (last.op = "logServiceInit" /\ last.gate) =>
        LET made == Made(last.id)
        IN  /\ Len(made) >= 1
            /\ made[1].ch = "debug"
            /\ Body(config, made[1].msg)
                   = <<"Service initialized: ">> \o last.arg.serviceName
            /\ IF last.arg.config = JsUndef THEN Len(made) = 1
               ELSE /\ Len(made) = 2
                    /\ made[2].ch = "debug"
                    /\ Body(config, made[2].msg)
                           = <<"Configuration:", " ">> \o Rendering(last.arg.config)

\* the module class's configuration says what the application class's says
Corresponds(c, mc) ==
    /\ mc.moduleName = c.appName
    /\ mc.version = c.version
    /\ mc.debugMode = c.debugMode
    /\ mc.showTimestamp = c.showTimestamp

C17_TimeAsyncLooksTwice ==
    /\ (last.op = "timeAsync" /\ last.phase = "enter") =>
           Top.instrumented = last.gate
    /\ Finished("timeAsync") =>
           /\ ret = opOutcome
           /\ IF last.gate /\ isLoggingEnabled(config)
              THEN OnePerformanceLine(
                       last.id,
                       IF opOutcome.kind = "raise" THEN last.arg \o <<" (failed)">>
                       ELSE last.arg)
              ELSE Made(last.id) = <<>>

\* a timeAsync begun with debug on resumed, in a job of its own, after another
\* call had switched debug off: the value is delivered and nothing is emitted
C17_Witness ==
    /\ Finished("timeAsync") /\ last.gate /\ ~isLoggingEnabled(config)
    /\ calls = 1 /\ out = <<>>
    /\ ret.kind = "value" /\ ret = opOutcome

\* console groups open after the first k invocations of the job
OpenGroups(k) ==
    Cardinality({i \in 1..k : out[i].ch = "group"})
        - Cardinality({i \in 1..k : out[i].ch = "groupEnd"})

\* group calls that opened a group and whose function is still running
GroupsUnderWay ==
    Cardinality({i \in 1..Len(stack) :
                    stack[i].kind = "group" /\ stack[i].instrumented})

(* C18: every console.group made by group() is matched by a                *)
(* console.groupEnd on every way out of group(): the number of open groups *)
(* is that of the group calls still under way (so it is back to what it    *)
(* was once they have all returned or failed) and never drops below zero.  *)
C18_GroupsBalanced ==
    /\ \A k \in 0..Len(out) : OpenGroups(k) >= 0
    /\ OpenGroups(Len(out)) = GroupsUnderWay

====
